---- MODULE Spec2Model ----
(***************************************************************************)
(* Selective-Repeat transport of src/sr.c: the sender A (A_output,         *)
(* A_input, A_timerinterrupt), the receiver B (B_input), and the channel   *)
(* and timer of the network emulator they run on.                          *)
(***************************************************************************)
EXTENDS Integers, Sequences, FiniteSets, TLC

\* ---- program constants (src/sr.c) ----
WINDOWSIZE == 6
SEQSPACE == 64
NOTINUSE == -1
PAYLOADLEN == 20

\* ---- bounds of the model ----
MaxChanAB == 1        \* data packets in flight from A to B
MaxChanBA == 1        \* ACK packets in flight from B to A
MaxMsgs == 7          \* messages the application gets accepted after the start
MaxWindowFull == 1    \* cap on the window_full counter

\* ---- values written by the emulator when it corrupts a packet ----
CORRUPTBYTE == 90
CORRUPTNUM == 999999

VARIABLES base, nextseqnum, status, buffer,
          B_base, B_received, B_buffer,
          window_full, timerOn,
          chanAB, chanBA,
          accepted, delivered,
          ev, calls, probe

vars == <<base, nextseqnum, status, buffer, B_base, B_received, B_buffer,
          window_full, timerOn, chanAB, chanBA, accepted, delivered, ev, calls, probe>>

protoVars == <<base, nextseqnum, status, buffer, B_base, B_received, B_buffer,
               window_full, timerOn, chanAB, chanBA, accepted, delivered, ev, calls>>

senderVars == <<base, nextseqnum, status, buffer, window_full, timerOn, accepted>>
receiverVars == <<B_base, B_received, B_buffer, delivered>>

SeqNums == 0 .. (SEQSPACE - 1)

\* ---- packets and messages ----
ZeroPayload == [i \in 1 .. PAYLOADLEN |-> 0]

\* a struct pkt in static storage before anything is written to it
ZeroPkt == [seqnum |-> 0, acknum |-> 0, checksum |-> 0, payload |-> ZeroPayload]

\* the k-th message of the application: 20 bytes, all equal to k
Msg(k) == [i \in 1 .. PAYLOADLEN |-> k]

RECURSIVE SumBytes(_, _)
SumBytes(payload, n) ==
  IF n = 0 THEN 0 ELSE payload[n] + SumBytes(payload, n - 1)

\* variant: the payload loop left out of the checksum
ComputeChecksumHeaderOnly(packet) == packet.seqnum + packet.acknum

\* variant: the acknum left out of the checksum
ComputeChecksumNoAcknum(packet) ==
  packet.seqnum + SumBytes(packet.payload, PAYLOADLEN)

ComputeChecksum(packet) ==
  packet.seqnum + packet.acknum + SumBytes(packet.payload, PAYLOADLEN)

IsCorrupted(packet) ==
  IF packet.checksum = ComputeChecksum(packet) THEN FALSE ELSE TRUE

\* variant: A_input without its checksum test
A_checksumSkipped(packet) == FALSE

\* the checksum test at the head of A_input
A_checksumFails(packet) == packet.checksum # ComputeChecksum(packet)

\* the checksum test at the head of B_input
B_checksumFails(packet) == packet.checksum # ComputeChecksum(packet)

\* the next sequence number of the sender (nextseqnum and base) and of the receiver
A_next(n) == (n + 1) % SEQSPACE

\* variant: the receiver's base wrapped at the window size
B_nextModWindow(n) == (n + 1) % WINDOWSIZE

B_next(n) == (n + 1) % SEQSPACE

\* variant: no window test, every number taken as inside the window
WindowTestAlways(x, b) == TRUE

\* the window test written out in A_input and in B_input
WindowTest(x, b) ==
  \/ (x < b /\ b - x > SEQSPACE \div 2)
  \/ (x >= b /\ x < (b + WINDOWSIZE) % SEQSPACE)

\* ---- the emulator: channel, corruption, timer, layer 5 ----
CorruptKinds == {"payload", "seqnum", "acknum"}

Corrupt(p, kind) ==
  CASE kind = "payload" -> [p EXCEPT !.payload[1] = CORRUPTBYTE]
    [] kind = "seqnum" -> [p EXCEPT !.seqnum = CORRUPTNUM]
    [] kind = "acknum" -> [p EXCEPT !.acknum = CORRUPTNUM]
    [] OTHER -> p

\* tolayer3: the packet enters the channel, or is lost when the channel is full
tolayer3(chan, p, cap) == IF Len(chan) < cap THEN Append(chan, p) ELSE chan

RECURSIVE tolayer3All(_, _, _)
tolayer3All(chan, ps, cap) ==
  IF ps = <<>> THEN chan
  ELSE tolayer3All(tolayer3(chan, Head(ps), cap), Tail(ps), cap)

NoMsg == <<>>
Call3(who, p) == [op |-> "tolayer3", who |-> who, pkt |-> p, data |-> NoMsg]
Call5(d) == [op |-> "tolayer5", who |-> "B", pkt |-> ZeroPkt, data |-> d]
CallStart == [op |-> "starttimer", who |-> "A", pkt |-> ZeroPkt, data |-> NoMsg]
CallStop == [op |-> "stoptimer", who |-> "A", pkt |-> ZeroPkt, data |-> NoMsg]

\* the last event: the handler the emulator called, whether the packet it
\* handed over had been corrupted on the way, and the number the packet carried
\* when it was sent (seqnum of a data packet, acknum of an ACK; NOTINUSE if none)
Event(h, c, n) == [h |-> h, corrupted |-> c, num |-> n]

\* ---- packets built by the two sides ----
MakeDataPkt(seq, message) ==
  LET body == [seqnum |-> seq, acknum |-> NOTINUSE, checksum |-> 0, payload |-> message]
  IN [body EXCEPT !.checksum = ComputeChecksum(body)]

MakeAckPkt(seq) ==
  LET body == [seqnum |-> 0, acknum |-> seq, checksum |-> 0, payload |-> ZeroPayload]
  IN [body EXCEPT !.checksum = ComputeChecksum(body)]

NoProbe == [fn |-> "none"]

\* ---- initial states ----
\* InitAt(0) is the state A_init and B_init leave.  InitAt(WrapStart) is the
\* state the program is in when the first WrapStart messages have been sent,
\* delivered and acknowledged one after the other over a channel that lost
\* nothing; FairSpec, which starts from InitAt(0) alone, reaches it (IdleAtWrapStart).
WrapStart == SEQSPACE - WINDOWSIZE - 1
StartAt == {0, WrapStart}

ProtoInitAt(k) ==
  /\ base = k
  /\ nextseqnum = k
  /\ status = [i \in SeqNums |-> "NOT_SENT"]
  /\ buffer = [i \in SeqNums |-> IF i < k THEN MakeDataPkt(i, Msg(i)) ELSE ZeroPkt]
  /\ B_base = k
  /\ B_received = [i \in SeqNums |-> 0]
  /\ B_buffer = [i \in SeqNums |-> IF i < k THEN MakeDataPkt(i, Msg(i)) ELSE ZeroPkt]
  /\ window_full = 0
  /\ timerOn = FALSE
  /\ chanAB = <<>>
  /\ chanBA = <<>>
  /\ accepted = [i \in 1 .. k |-> Msg(i - 1)]
  /\ delivered = [i \in 1 .. k |-> Msg(i - 1)]
  /\ ev = IF k = 0 THEN Event("init", FALSE, NOTINUSE) ELSE Event("A_input", FALSE, k - 1)
  /\ calls = IF k = 0 THEN <<>> ELSE <<CallStop>>

InitAt(k) == ProtoInitAt(k) /\ probe = NoProbe

Init == \E k \in StartAt : InitAt(k)

\* ---- sender ----
\* variant: the window test of A_output off by one
WindowNotFullOffByOne == (nextseqnum + SEQSPACE - base) % SEQSPACE <= WINDOWSIZE

\* variant: the window test of A_output as a count of unacknowledged slots
WindowNotFullByCount ==
  Cardinality({i \in SeqNums : status[i] = "SENT_NOT_ACKED"}) < WINDOWSIZE

\* the condition of line 83
WindowNotFull == (nextseqnum + SEQSPACE - base) % SEQSPACE < WINDOWSIZE

\* the application still has a new message to hand over: it hands over the
\* messages Msg(0), Msg(1), ... up to Msg(limit - 1), and hands a rejected
\* message over again
CanSubmit(limit) == Len(accepted) < limit

\* variant: the packet sent but not stored in the window buffer
A_sendNoStore(message, cap) ==
  LET sendpkt == MakeDataPkt(nextseqnum, message) IN
  /\ buffer' = buffer
  /\ status' = [status EXCEPT ![nextseqnum] = "SENT_NOT_ACKED"]
  /\ chanAB' = tolayer3(chanAB, sendpkt, cap)
  /\ timerOn' = IF base = nextseqnum THEN TRUE ELSE timerOn
  /\ calls' = IF base = nextseqnum THEN <<Call3("A", sendpkt), CallStart>>
              ELSE <<Call3("A", sendpkt)>>
  /\ nextseqnum' = A_next(nextseqnum)
  /\ accepted' = Append(accepted, message)
  /\ UNCHANGED <<base, window_full>>

\* A_output, window not full: lines 84-107
A_send(message, cap) ==
  LET sendpkt == MakeDataPkt(nextseqnum, message) IN
  /\ buffer' = [buffer EXCEPT ![nextseqnum] = sendpkt]
  /\ status' = [status EXCEPT ![nextseqnum] = "SENT_NOT_ACKED"]
  /\ chanAB' = tolayer3(chanAB, sendpkt, cap)
  /\ timerOn' = IF base = nextseqnum THEN TRUE ELSE timerOn
  /\ calls' = IF base = nextseqnum THEN <<Call3("A", sendpkt), CallStart>>
              ELSE <<Call3("A", sendpkt)>>
  /\ nextseqnum' = A_next(nextseqnum)
  /\ accepted' = Append(accepted, message)
  /\ UNCHANGED <<base, window_full>>

\* variant: the window-full branch without its counter
A_rejectNoCount ==
  /\ window_full' = window_full
  /\ calls' = <<>>
  /\ UNCHANGED <<base, nextseqnum, status, buffer, timerOn, accepted, chanAB>>

\* A_output, window full: lines 110-114
A_reject ==
  /\ window_full' = window_full + 1
  /\ calls' = <<>>
  /\ UNCHANGED <<base, nextseqnum, status, buffer, timerOn, accepted, chanAB>>

A_output(cap, limit) ==
  LET message == Msg(Len(accepted)) IN
  /\ IF WindowNotFull
     THEN CanSubmit(limit) /\ A_send(message, cap)
     ELSE window_full < MaxWindowFull /\ A_reject
  /\ ev' = Event("A_output", FALSE, NOTINUSE)
  /\ UNCHANGED <<chanBA, receiverVars, probe>>

\* variant: the slide loop passing every sent slot, acknowledged or not
RECURSIVE A_slideOverSent(_, _)
A_slideOverSent(st, b) ==
  IF st[b] # "NOT_SENT" THEN A_slideOverSent([st EXCEPT ![b] = "NOT_SENT"], A_next(b))
  ELSE [status |-> st, base |-> b]

\* variant: the slide loop without the reset of the slot to NOT_SENT
RECURSIVE A_slideNoReset(_, _)
A_slideNoReset(st, b) ==
  IF st[b] = "ACKED" THEN A_slideNoReset(st, A_next(b))
  ELSE [status |-> st, base |-> b]

\* the slide loop of A_input, lines 144-149
RECURSIVE A_slide(_, _)
A_slide(st, b) ==
  IF st[b] = "ACKED" THEN A_slide([st EXCEPT ![b] = "NOT_SENT"], A_next(b))
  ELSE [status |-> st, base |-> b]

\* variant: the scan for an unacknowledged slot started one slot after base
HasUnackedAfterBase(st, b) ==
  \E i \in 1 .. (WINDOWSIZE - 1) : st[(b + i) % SEQSPACE] = "SENT_NOT_ACKED"

\* the scan for an unacknowledged slot, lines 151-159
HasUnacked(st, b) ==
  \E i \in 0 .. (WINDOWSIZE - 1) : st[(b + i) % SEQSPACE] = "SENT_NOT_ACKED"

\* A_input applied to the packet the channel hands over
A_inputOn(packet) ==
  IF A_checksumFails(packet)
  THEN /\ calls' = <<>>
       /\ UNCHANGED senderVars
  ELSE LET acknum == packet.acknum IN
       IF WindowTest(acknum, base)
       THEN LET slid == A_slide([status EXCEPT ![acknum] = "ACKED"], base) IN
            /\ status' = slid.status
            /\ base' = slid.base
            /\ IF HasUnacked(slid.status, slid.base)
               THEN calls' = <<>> /\ timerOn' = timerOn
               ELSE calls' = <<CallStop>> /\ timerOn' = FALSE
            /\ UNCHANGED <<nextseqnum, buffer, window_full, accepted>>
       ELSE /\ calls' = <<>>
            /\ UNCHANGED senderVars

\* delivery of the head of the B-to-A channel, intact or corrupted on the way
A_input(kinds) ==
  /\ chanBA # <<>>
  /\ \E k \in kinds :
       LET packet == Corrupt(Head(chanBA), k) IN
       /\ A_inputOn(packet)
       /\ ev' = Event("A_input", k # "none", Head(chanBA).acknum)
  /\ chanBA' = Tail(chanBA)
  /\ UNCHANGED <<chanAB, receiverVars, probe>>

\* variant: every sent packet of the window resent, acknowledged or not
RECURSIVE ResendAllSent(_)
ResendAllSent(i) ==
  IF i = WINDOWSIZE THEN <<>>
  ELSE LET idx == (base + i) % SEQSPACE IN
       (IF status[idx] # "NOT_SENT" THEN <<buffer[idx]>> ELSE <<>>) \o ResendAllSent(i + 1)

\* the packets A_timerinterrupt resends, in window order
RECURSIVE Resend(_)
Resend(i) ==
  IF i = WINDOWSIZE THEN <<>>
  ELSE LET idx == (base + i) % SEQSPACE IN
       (IF status[idx] = "SENT_NOT_ACKED" THEN <<buffer[idx]>> ELSE <<>>) \o Resend(i + 1)

RECURSIVE Calls3(_, _)
Calls3(who, ps) ==
  IF ps = <<>> THEN <<>> ELSE <<Call3(who, Head(ps))>> \o Calls3(who, Tail(ps))

A_timerinterrupt(cap) ==
  /\ timerOn
  /\ chanAB' = tolayer3All(chanAB, Resend(0), cap)
  /\ calls' = Calls3("A", Resend(0)) \o <<CallStart>>
  /\ timerOn' = TRUE
  /\ ev' = Event("A_timerinterrupt", FALSE, NOTINUSE)
  /\ UNCHANGED <<base, nextseqnum, status, buffer, window_full, accepted,
                 chanBA, receiverVars, probe>>

\* ---- receiver ----
\* variant: the delivery loop written as do ... while
RECURSIVE B_deliverDoWhile(_, _, _, _)
B_deliverDoWhile(buf, recv, b, out) ==
  LET r == [recv EXCEPT ![b] = 0]
      n == B_next(b)
      o == Append(out, buf[b].payload)
  IN IF r[n] = 1 THEN B_deliverDoWhile(buf, r, n, o)
     ELSE [received |-> r, base |-> n, out |-> o]

\* variant: the delivery loop without the reset of the received flag
RECURSIVE B_deliverNoClear(_, _, _, _)
B_deliverNoClear(buf, recv, b, out) ==
  IF recv[b] = 1
  THEN B_deliverNoClear(buf, recv, B_next(b), Append(out, buf[b].payload))
  ELSE [received |-> recv, base |-> b, out |-> out]

\* the delivery loop of B_input, lines 252-258; out collects the tolayer5 payloads
RECURSIVE B_deliver(_, _, _, _)
B_deliver(buf, recv, b, out) ==
  IF recv[b] = 1
  THEN B_deliver(buf, [recv EXCEPT ![b] = 0], B_next(b), Append(out, buf[b].payload))
  ELSE [received |-> recv, base |-> b, out |-> out]

\* caching of an in-window packet, lines 232-240
B_cache(buf, recv, packet) ==
  IF recv[packet.seqnum] = 0 THEN [buf EXCEPT ![packet.seqnum] = packet] ELSE buf

B_inputOn(packet, cap) ==
  IF B_checksumFails(packet)
  THEN /\ calls' = <<>>
       /\ UNCHANGED <<receiverVars, chanBA>>
  ELSE LET seq == packet.seqnum IN
       IF WindowTest(seq, B_base)
       THEN LET buf1 == B_cache(B_buffer, B_received, packet)
                rcv1 == [B_received EXCEPT ![seq] = 1]
                ackpkt == MakeAckPkt(seq)
                d == B_deliver(buf1, rcv1, B_base, <<>>)
            IN /\ B_buffer' = buf1
               /\ B_received' = d.received
               /\ B_base' = d.base
               /\ delivered' = delivered \o d.out
               /\ chanBA' = tolayer3(chanBA, ackpkt, cap)
               /\ calls' = <<Call3("B", ackpkt)>> \o [i \in 1 .. Len(d.out) |-> Call5(d.out[i])]
       ELSE /\ calls' = <<>>
            /\ UNCHANGED <<receiverVars, chanBA>>

B_input(cap, kinds) ==
  /\ chanAB # <<>>
  /\ \E k \in kinds :
       LET packet == Corrupt(Head(chanAB), k) IN
       /\ B_inputOn(packet, cap)
       /\ ev' = Event("B_input", k # "none", Head(chanAB).seqnum)
  /\ chanAB' = Tail(chanAB)
  /\ UNCHANGED <<senderVars, probe>>

\* ---- the channel loses the packet at its head ----
LoseAB ==
  /\ chanAB # <<>>
  /\ chanAB' = Tail(chanAB)
  /\ ev' = Event("LoseAB", FALSE, NOTINUSE)
  /\ calls' = <<>>
  /\ UNCHANGED <<senderVars, receiverVars, chanBA, probe>>

LoseBA ==
  /\ chanBA # <<>>
  /\ chanBA' = Tail(chanBA)
  /\ ev' = Event("LoseBA", FALSE, NOTINUSE)
  /\ calls' = <<>>
  /\ UNCHANGED <<senderVars, receiverVars, chanAB, probe>>

AllKinds == CorruptKinds \cup {"none"}

\* MaxMsgs messages after the initial state the behaviour started in
Budget == (IF Len(accepted) >= WrapStart THEN WrapStart ELSE 0) + MaxMsgs

Next ==
  \/ A_output(MaxChanAB, Budget)
  \/ A_input(AllKinds)
  \/ A_timerinterrupt(MaxChanAB)
  \/ B_input(MaxChanBA, AllKinds)
  \/ LoseAB
  \/ LoseBA

Spec == Init /\ [][Next]_vars

\* ---- the same program with room for a second copy of a packet in flight ----
\* Each channel holds one packet more, so that a timer expiry puts copies of two
\* outstanding packets in flight, B sees a packet it has cached and not yet
\* delivered a second time, and A sees the ACK of a slot that is ACKED a second
\* time; the application has DupMsgs messages.
DupMsgs == WINDOWSIZE - 2

DupNext ==
  \/ A_output(MaxChanAB + 1, DupMsgs)
  \/ A_input(AllKinds)
  \/ A_timerinterrupt(MaxChanAB + 1)
  \/ B_input(MaxChanBA + 1, AllKinds)
  \/ LoseAB
  \/ LoseBA

DupSpec == InitAt(0) /\ [][DupNext]_vars

\* ---- the same program over a channel that loses and corrupts nothing ----
\* The channel holds a full window, so tolayer3 never drops; the timer expires
\* only when nothing is in flight (the timeout exceeds the transit times), so
\* at most WINDOWSIZE packets are in flight in each direction.  The
\* application has FairMsgs messages, more than one round of sequence numbers.
FairMsgs == SEQSPACE + WINDOWSIZE

A_outputFair == A_output(WINDOWSIZE, FairMsgs)
A_inputFair == A_input({"none"})
B_inputFair == B_input(WINDOWSIZE, {"none"})
A_timerFair == chanAB = <<>> /\ chanBA = <<>> /\ A_timerinterrupt(WINDOWSIZE)

FairNext == A_outputFair \/ A_inputFair \/ B_inputFair \/ A_timerFair

FairSpec ==
  /\ InitAt(0)
  /\ [][FairNext]_vars
  /\ WF_vars(A_inputFair)
  /\ WF_vars(B_inputFair)
  /\ WF_vars(A_timerFair)

\* ---- the window test on its own, over every pair of inputs ----
WinInit ==
  /\ ProtoInitAt(0)
  /\ probe \in {[fn |-> "WindowTest", x |-> x, b |-> b, done |-> FALSE, res |-> FALSE] :
                   x \in SeqNums, b \in SeqNums}

ApplyWindowTest ==
  /\ probe.fn = "WindowTest"
  /\ ~probe.done
  /\ probe' = [probe EXCEPT !.done = TRUE, !.res = WindowTest(probe.x, probe.b)]
  /\ UNCHANGED protoVars

WinSpec == WinInit /\ [][ApplyWindowTest]_vars

\* ---- the checksum on its own: a packet as A_output or B_input builds it, ----
\* ---- then one field overwritten and the checksum field left as it was     ----
ChkSeqs == {0, 5, SEQSPACE - 1}
ChkMsgs == {0, 1, CORRUPTBYTE}
ChkNums == {NOTINUSE, 0, 1, 5, SEQSPACE - 1, CORRUPTNUM}
ChkBytes == {0, 1, CORRUPTBYTE, 127}
ChkPkts == {MakeDataPkt(s, Msg(k)) : s \in ChkSeqs, k \in ChkMsgs}
             \cup {MakeAckPkt(s) : s \in ChkSeqs}

\* the packet with one field overwritten
Overwrite(p, field, idx, val) ==
  CASE field = "seqnum" -> [p EXCEPT !.seqnum = val]
    [] field = "acknum" -> [p EXCEPT !.acknum = val]
    [] field = "payload" -> [p EXCEPT !.payload[idx] = val]

ChkProbe(p, field, idx, val) ==
  [fn |-> "IsCorrupted", pkt |-> p, field |-> field, idx |-> idx, val |-> val,
   done |-> FALSE, orig |-> FALSE, res |-> FALSE]

ChkInit ==
  /\ ProtoInitAt(0)
  /\ probe \in {ChkProbe(p, f, 1, v) : p \in ChkPkts, f \in {"seqnum", "acknum"}, v \in ChkNums}
                 \cup {ChkProbe(p, "payload", i, v) : p \in ChkPkts, i \in 1 .. PAYLOADLEN, v \in ChkBytes}

ApplyIsCorrupted ==
  /\ probe.fn = "IsCorrupted"
  /\ ~probe.done
  /\ probe' = [probe EXCEPT
                 !.done = TRUE,
                 !.orig = IsCorrupted(probe.pkt),
                 !.res = IsCorrupted(Overwrite(probe.pkt, probe.field, probe.idx, probe.val))]
  /\ UNCHANGED protoVars

ChkSpec == ChkInit /\ [][ApplyIsCorrupted]_vars

\* ======================= properties =======================
Range(q) == {q[i] : i \in 1 .. Len(q)}
Occurrences(q, x) == Cardinality({i \in 1 .. Len(q) : q[i] = x})
Outstanding == (nextseqnum - base + SEQSPACE) % SEQSPACE
Unacked == {i \in SeqNums : status[i] = "SENT_NOT_ACKED"}
\* accepted messages the sender's base has passed
Passed == Len(accepted) - Outstanding
\* ACK packets for sequence number n among the calls of one B_input
AckCount(cs, n) ==
  Cardinality({j \in 1 .. Len(cs) :
                 cs[j].op = "tolayer3" /\ cs[j].who = "B" /\ cs[j].pkt.acknum = n})
\* the step hands the intact head of the A-to-B channel to B_input
B_inputIntactStep == chanAB # <<>> /\ ev'.h = "B_input" /\ ~ev'.corrupted
\* a copy of this data packet was accepted by B before: it is cached or delivered
SeenBefore(p) ==
  \/ B_received[p.seqnum] = 1 /\ B_buffer[p.seqnum] = p
  \/ p.payload \in Range(delivered)

\* IdleAtWrapStart: the second initial state of Spec, as FairSpec reaches it
IdleAtWrapStart == ProtoInitAt(WrapStart)

\* C1: the payloads handed to layer 5 at B are, in order and without gaps or
\* foreign payloads, a prefix of the messages A_output accepted.
C1_DeliveredPrefixOfAccepted ==
  /\ Len(delivered) <= Len(accepted)
  /\ \A i \in 1 .. Len(delivered) : delivered[i] = accepted[i]

\* C1 witness: a B_input call that filled a gap and delivered several cached
\* payloads at once, while a later message is still undelivered.
C1_Witness ==
  /\ ev.h = "B_input"
  /\ Len(calls) >= 3
  /\ calls[2].op = "tolayer5" /\ calls[3].op = "tolayer5"
  /\ Len(delivered) >= 3
  /\ Len(delivered) < Len(accepted)

AllDone == delivered = accepted /\ Outstanding = 0
C3_EventualDelivery == (~AllDone) ~> AllDone

\* C4: at most WINDOWSIZE slots are SENT_NOT_ACKED and nextseqnum is at most
\* WINDOWSIZE ahead of base, modulo SEQSPACE.
C4_WindowBound ==
  /\ Cardinality(Unacked) <= WINDOWSIZE
  /\ Outstanding <= WINDOWSIZE

\* C4 witness: a full window of unacknowledged packets that straddles the wrap.
C4_Witness ==
  /\ Cardinality(Unacked) = WINDOWSIZE
  /\ Outstanding = WINDOWSIZE
  /\ nextseqnum < base

\* C5: a second intact copy of a data packet B accepted before gets exactly one
\* ACK of its own (two in all), is not cached again and is not delivered again.
C5_DuplicateAckedAgain ==
  [][B_inputIntactStep /\ SeenBefore(Head(chanAB))
       => /\ AckCount(calls', Head(chanAB).seqnum) = 1
          /\ B_buffer' = B_buffer
          /\ Occurrences(delivered', Head(chanAB).payload) <= 1]_vars

\* C6: an intact data packet that was already delivered and whose seqnum is one
\* of the WINDOWSIZE numbers before B_base is answered with an ACK for it.
C6_DeliveredPacketReAcked ==
  [][(/\ B_inputIntactStep
      /\ (B_base - Head(chanAB).seqnum + SEQSPACE) % SEQSPACE \in 1 .. WINDOWSIZE
      /\ Head(chanAB).payload \in Range(delivered))
       => AckCount(calls', Head(chanAB).seqnum) >= 1]_vars

\* C7: the window test of A_input and B_input is true exactly when
\* (x - base + SEQSPACE) % SEQSPACE < WINDOWSIZE.
C7_WindowTestIsModular ==
  (probe.fn = "WindowTest" /\ probe.done)
    => (probe.res <=> ((probe.x - probe.b + SEQSPACE) % SEQSPACE < WINDOWSIZE))

\* C8: A_input on a corrupted packet changes nothing at the sender, sends
\* nothing and leaves the timer alone; the slot the ACK was for stays
\* SENT_NOT_ACKED with the timer running, and a timer expiry resends every
\* SENT_NOT_ACKED slot.
C8_CorruptedAckIsLoss ==
  [][/\ (chanBA # <<>> /\ ev'.h = "A_input" /\ ev'.corrupted)
        => /\ UNCHANGED <<base, nextseqnum, status, buffer, timerOn, window_full, chanAB>>
           /\ calls' = <<>>
           /\ (status[Head(chanBA).acknum] = "SENT_NOT_ACKED"
                 => status'[Head(chanBA).acknum] = "SENT_NOT_ACKED" /\ timerOn')
     /\ ev'.h = "A_timerinterrupt"
        => \A i \in Unacked : \E j \in 1 .. Len(calls') : calls'[j] = Call3("A", buffer[i])]_vars

\* C8 witness: a corrupted ACK for a slot that is SENT_NOT_ACKED has just been
\* through A_input.
C8_Witness ==
  /\ ev.h = "A_input" /\ ev.corrupted
  /\ status[ev.num] = "SENT_NOT_ACKED"
  /\ timerOn
  /\ calls = <<>>

\* C9: B_input on a corrupted packet sends no ACK, caches nothing, delivers
\* nothing and leaves B_base and the received flags unchanged.
C9_CorruptedDataIgnored ==
  [][(chanAB # <<>> /\ ev'.h = "B_input" /\ ev'.corrupted)
       => /\ calls' = <<>>
          /\ UNCHANGED <<B_base, B_received, B_buffer, delivered, chanBA>>]_vars

\* C9 witness: a corrupted copy of a data packet that B has not cached, inside
\* the receive window, has just been through B_input.
C9_Witness ==
  /\ ev.h = "B_input" /\ ev.corrupted
  /\ (ev.num - B_base + SEQSPACE) % SEQSPACE < WINDOWSIZE
  /\ B_received[ev.num] = 0
  /\ \E i \in SeqNums : B_received[i] = 1

\* C10: A_output with WINDOWSIZE numbers outstanding sends nothing, stores
\* nothing, leaves base, nextseqnum, statuses, buffer and timer unchanged and
\* adds exactly one to window_full.
C10_WindowFullRejects ==
  [][(ev'.h = "A_output" /\ Outstanding = WINDOWSIZE)
       => /\ calls' = <<>>
          /\ UNCHANGED <<base, nextseqnum, status, buffer, timerOn, accepted, chanAB, chanBA>>
          /\ window_full' = window_full + 1]_vars

\* C10 witness: a message has just been rejected with a full window.
C10_Witness ==
  /\ ev.h = "A_output"
  /\ calls = <<>>
  /\ window_full = 1
  /\ Outstanding = WINDOWSIZE
  /\ Cardinality(Unacked) = WINDOWSIZE

\* C11: a packet built by A_output or B_input is not corrupted as it stands,
\* and with exactly one of seqnum, acknum or one payload byte changed to a
\* different value, checksum field untouched, IsCorrupted returns true.
C11_ChecksumSound ==
  (probe.fn = "IsCorrupted" /\ probe.done)
    => /\ probe.orig = FALSE
       /\ (Overwrite(probe.pkt, probe.field, probe.idx, probe.val) # probe.pkt
             => probe.res = TRUE)

\* C11 witness: an ACK packet whose acknum was changed is found corrupted.
C11_Witness ==
  /\ probe.fn = "IsCorrupted" /\ probe.done
  /\ probe.pkt = MakeAckPkt(5)
  /\ probe.field = "acknum" /\ probe.val = 0
  /\ probe.res = TRUE /\ probe.orig = FALSE

\* the step hands the head of the B-to-A channel to A_input
A_inputStep == chanBA # <<>> /\ ev'.h = "A_input"
\* x lies among the outstanding sequence numbers [base, nextseqnum), circularly
InOutstanding(x) == (x - base + SEQSPACE) % SEQSPACE < Outstanding

UnackedOffsets == {i \in 0 .. (WINDOWSIZE - 1) : status[(base + i) % SEQSPACE] = "SENT_NOT_ACKED"}
\* the j-th of them in window order
NthUnackedOffset(j) ==
  CHOOSE o \in UnackedOffsets : Cardinality({p \in UnackedOffsets : p < o}) = j - 1

\* C13: A_timerinterrupt sends exactly the buffered packets of the
\* SENT_NOT_ACKED slots of [base, base + WINDOWSIZE), each once and in window
\* order, none of an ACKED or NOT_SENT slot, then starts the timer once, and
\* leaves base, nextseqnum, the statuses and the buffer unchanged.
C13_TimerResendsSelectively ==
  [][ev'.h = "A_timerinterrupt" =>
       LET n == Cardinality(UnackedOffsets) IN
       /\ Len(calls') = n + 1
       /\ \A j \in 1 .. n :
            /\ calls'[j] = Call3("A", buffer[(base + NthUnackedOffset(j)) % SEQSPACE])
            /\ status[calls'[j].pkt.seqnum] = "SENT_NOT_ACKED"
       /\ calls'[n + 1] = CallStart
       /\ timerOn'
       /\ UNCHANGED <<base, nextseqnum, status, buffer>>]_vars

\* C13 witness: the timer has just expired with an ACKED slot between two
\* SENT_NOT_ACKED slots; the two packets around it were resent, it was not.
C13_Witness ==
  /\ ev.h = "A_timerinterrupt"
  /\ status[base] = "SENT_NOT_ACKED"
  /\ status[A_next(base)] = "ACKED"
  /\ status[A_next(A_next(base))] = "SENT_NOT_ACKED"
  /\ Len(calls) = 3
  /\ calls[1].pkt.seqnum = base
  /\ calls[2].pkt.seqnum = A_next(A_next(base))

\* the tolayer3 calls among the calls of one handler
Sent3(cs) == {j \in 1 .. Len(cs) : cs[j].op = "tolayer3"}

\* C14: A_output with the window not full sends exactly one packet with
\* seqnum = nextseqnum, acknum = NOTINUSE, the message as payload and a matching
\* checksum, stores it in its buffer slot, sets the slot to SENT_NOT_ACKED,
\* advances nextseqnum by one modulo SEQSPACE and leaves base unchanged; the
\* k-th accepted message carries seqnum k mod SEQSPACE.
C14_SuccessfulSend ==
  [][(ev'.h = "A_output" /\ Outstanding < WINDOWSIZE) =>
       LET k == Len(accepted)
           p == calls'[1].pkt
       IN /\ Sent3(calls') = {1}
          /\ calls'[1].who = "A"
          /\ p.seqnum = nextseqnum
          /\ p.seqnum = k % SEQSPACE
          /\ p.acknum = NOTINUSE
          /\ accepted' = Append(accepted, p.payload)
          /\ p.checksum = p.seqnum + p.acknum + SumBytes(p.payload, PAYLOADLEN)
          /\ buffer' = [buffer EXCEPT ![nextseqnum] = p]
          /\ status' = [status EXCEPT ![nextseqnum] = "SENT_NOT_ACKED"]
          /\ nextseqnum' = (nextseqnum + 1) % SEQSPACE
          /\ base' = base]_vars

\* C14 witness: the message with number SEQSPACE - 1 has just been sent as
\* packet SEQSPACE - 1 and nextseqnum has wrapped to 0.
C14_Witness ==
  /\ ev.h = "A_output"
  /\ Len(accepted) = SEQSPACE
  /\ nextseqnum = 0
  /\ Len(calls) = 1
  /\ calls[1].pkt = MakeDataPkt(SEQSPACE - 1, Msg(SEQSPACE - 1))
  /\ buffer[SEQSPACE - 1] = calls[1].pkt
  /\ status[SEQSPACE - 1] = "SENT_NOT_ACKED"

\* slots that hold a packet base has not passed: SENT_NOT_ACKED or ACKED
InWindowSlots == {i \in SeqNums : status[i] # "NOT_SENT"}
\* the A_output step took the message / turned it down
A_outputAccepts == accepted' # accepted /\ Sent3(calls') # {}
A_outputRejects == accepted' = accepted /\ Sent3(calls') = {} /\ window_full' = window_full + 1

\* C15 as stated: A_output accepts and transmits whenever fewer than WINDOWSIZE
\* slots are SENT_NOT_ACKED and rejects only when WINDOWSIZE slots are, also
\* when slots after an unacknowledged base are ACKED.
C15_AdmissionByUnackedCount ==
  [][ev'.h = "A_output" =>
       /\ Cardinality(Unacked) < WINDOWSIZE => A_outputAccepts
       /\ A_outputRejects => Cardinality(Unacked) = WINDOWSIZE]_vars

\* C15 as amended: A_output accepts and transmits whenever fewer than WINDOWSIZE
\* slots are sent and not yet passed by base (SENT_NOT_ACKED or ACKED), and
\* rejects only when WINDOWSIZE slots are; an ACKED slot after an
\* unacknowledged base counts.
C15_AdmissionByWindowSpan ==
  [][ev'.h = "A_output" =>
       /\ Cardinality(InWindowSlots) <= WINDOWSIZE
       /\ Cardinality(InWindowSlots) < WINDOWSIZE => A_outputAccepts
       /\ A_outputRejects => Cardinality(InWindowSlots) = WINDOWSIZE
       /\ A_outputAccepts \/ A_outputRejects]_vars

\* C15 witness: a message has just been rejected although an ACKED slot after
\* the unacknowledged base leaves fewer than WINDOWSIZE slots SENT_NOT_ACKED.
C15_Witness ==
  /\ ev.h = "A_output"
  /\ calls = <<>>
  /\ window_full = 1
  /\ status[base] = "SENT_NOT_ACKED"
  /\ Cardinality(Unacked) < WINDOWSIZE
  /\ Cardinality(InWindowSlots) = WINDOWSIZE

\* x lies in the receive window [B_base, B_base + WINDOWSIZE), circularly
InReceiveWindow(x) == (x - B_base + SEQSPACE) % SEQSPACE < WINDOWSIZE

\* C16: for an uncorrupted data packet whose seqnum is in the receive window,
\* B_input sends exactly one ACK, with acknum = seqnum, a zero payload and a
\* matching checksum, whether or not the slot is cached; it caches the packet
\* only if the slot is not cached, so that the first copy is the one delivered.
C16_InWindowPacketAcked ==
  [][(B_inputIntactStep /\ InReceiveWindow(Head(chanAB).seqnum)) =>
       LET p == Head(chanAB)
           a == calls'[1].pkt
       IN /\ Sent3(calls') = {1}
          /\ calls'[1].who = "B"
          /\ a.acknum = p.seqnum
          /\ a.payload = ZeroPayload
          /\ a.checksum = a.seqnum + a.acknum + SumBytes(a.payload, PAYLOADLEN)
          /\ B_received[p.seqnum] = 1 => B_buffer' = B_buffer
          /\ B_received[p.seqnum] = 0 => B_buffer' = [B_buffer EXCEPT ![p.seqnum] = p]]_vars

\* the step hands the head of the A-to-B channel to B_input
B_inputStep == chanAB # <<>> /\ ev'.h = "B_input"
\* slots with the received flag set
Cached == {i \in SeqNums : B_received[i] = 1}

\* C17: after every B_input call the slot at B_base is not cached; B_base has
\* advanced by exactly the length of the contiguous run of cached slots that
\* started at the old B_base (the slot cached in this call included), each slot
\* of the run was delivered and cleared, no other flag changed, and every slot
\* still flagged lies strictly inside (B_base, B_base + WINDOWSIZE) modulo
\* SEQSPACE.
C17_ReceiverSlide ==
  [][B_inputStep =>
       LET d == (B_base' - B_base + SEQSPACE) % SEQSPACE
           run == {(B_base + j) % SEQSPACE : j \in 0 .. (d - 1)}
           now == Cached \cup (IF Sent3(calls') # {} THEN {Head(chanAB).seqnum} ELSE {})
       IN /\ d <= WINDOWSIZE
          /\ run \subseteq now
          /\ B_base' \notin now
          /\ B_received'[B_base'] = 0
          /\ Cached' = now \ run
          /\ delivered' = delivered \o
               [j \in 1 .. d |-> B_buffer'[(B_base + j - 1) % SEQSPACE].payload]
          /\ \A i \in Cached' :
               (i - B_base' + SEQSPACE) % SEQSPACE \in 1 .. (WINDOWSIZE - 1)]_vars

\* C17 witness: a B_input call has just delivered a run of three cached slots
\* and B_base stopped at a free slot, with a cached slot left further on.
C17_Witness ==
  /\ ev.h = "B_input"
  /\ Len(calls) = 4
  /\ calls[4].op = "tolayer5"
  /\ B_received[B_base] = 0
  /\ B_received[B_next(B_base)] = 1

\* C18, between events: every slot in [base, nextseqnum) is SENT_NOT_ACKED or
\* ACKED, the slot at base is SENT_NOT_ACKED whenever base differs from
\* nextseqnum, and every slot outside [base, nextseqnum) is NOT_SENT.
SenderSlotsOK ==
  /\ \A i \in SeqNums :
       IF InOutstanding(i) THEN status[i] \in {"SENT_NOT_ACKED", "ACKED"}
       ELSE status[i] = "NOT_SENT"
  /\ base # nextseqnum => status[base] = "SENT_NOT_ACKED"

\* C18: the slot invariant holds after every event, and base changes only in
\* A_input and only forward: by one modulo SEQSPACE for each slot it passes,
\* each of them ACKED (the slot of the ACK just taken included).
C18_SenderSlots ==
  [][/\ SenderSlotsOK'
     /\ base' # base =>
          LET d == (base' - base + SEQSPACE) % SEQSPACE IN
          /\ A_inputStep
          /\ d <= Outstanding
          /\ \A j \in 0 .. (d - 1) :
               LET i == (base + j) % SEQSPACE IN
               /\ status[i] = "ACKED" \/ i = Head(chanBA).acknum
               /\ status'[i] = "NOT_SENT"]_vars

\* C18 witness: A_input has just moved base forward over three slots, the
\* second and third of them ACKED earlier, on to a slot that is SENT_NOT_ACKED.
C18_Witness ==
  /\ ev.h = "A_input" /\ ~ev.corrupted
  /\ base = (ev.num + 3) % SEQSPACE
  /\ status[ev.num] = "NOT_SENT"
  /\ status[base] = "SENT_NOT_ACKED"
  /\ nextseqnum # base
  /\ SenderSlotsOK

\* the calls of one handler include this one
Called(cs, c) == \E j \in 1 .. Len(cs) : cs[j] = c

\* C19, between events: the timer is running if and only if some slot is
\* SENT_NOT_ACKED, which is the case if and only if base differs from nextseqnum.
TimerMatchesUnacked ==
  /\ timerOn <=> Unacked # {}
  /\ Unacked # {} <=> base # nextseqnum

\* C19: the timer invariant holds after every event; A_output never calls
\* starttimer while the timer is running, A_input never calls stoptimer while
\* it is not running, and every A_timerinterrupt resends at least one packet.
C19_SingleTimer ==
  [][/\ TimerMatchesUnacked'
     /\ (ev'.h = "A_output" /\ Called(calls', CallStart)) => ~timerOn
     /\ (ev'.h = "A_input" /\ Called(calls', CallStop)) => timerOn
     /\ ev'.h = "A_timerinterrupt" => Sent3(calls') # {}]_vars

\* C19 witness: A_input has just stopped the timer on the ACK for the slot at
\* base, which let base pass that slot and the ACKED slot after it and emptied
\* the window, with everything accepted delivered.
C19_Witness ==
  /\ ev.h = "A_input" /\ ~ev.corrupted
  /\ calls = <<CallStop>>
  /\ ~timerOn
  /\ Unacked = {}
  /\ base = nextseqnum
  /\ base = (ev.num + 2) % SEQSPACE
  /\ Len(accepted) = Len(delivered)

\* how far the receiver's base is ahead of the sender's base, circularly
ReceiverLead == (B_base - base + SEQSPACE) % SEQSPACE

\* C20: the receiver's base lies between the sender's base and nextseqnum in
\* circular order: (B_base - base) mod SEQSPACE <= (nextseqnum - base) mod
\* SEQSPACE <= WINDOWSIZE.  The sender has passed only delivered packets and the
\* receiver has delivered only packets that were sent: the number of messages
\* delivered is the number base has passed plus the receiver's lead.
C20_PeerAlignment ==
  /\ ReceiverLead <= Outstanding
  /\ Outstanding <= WINDOWSIZE
  /\ Len(delivered) = Passed + ReceiverLead
  /\ Len(delivered) <= Len(accepted)

\* C20 witness: a full window outstanding with the receiver's base strictly
\* between the sender's base and nextseqnum, and a slot cached beyond it.
C20_Witness ==
  /\ Outstanding = WINDOWSIZE
  /\ ReceiverLead = 2
  /\ Cached # {}
  /\ status[base] = "SENT_NOT_ACKED"

TypeOK == base \in SeqNums /\ nextseqnum \in SeqNums /\ B_base \in SeqNums
====
